---------------------------- MODULE Spec2Model ----------------------------
(***************************************************************************)
(* Store of the home-inventory manager (app/main.py, app/models.py): the   *)
(* items, barcodes, recipes, recipe_ingredients and recipe_steps tables    *)
(* and the request handlers that read and write them.  Every handler runs  *)
(* in one database session and commits at most once, so a request is one   *)
(* atomic step of the store.                                               *)
(***************************************************************************)
EXTENDS Integers, Sequences, FiniteSets, TLC

(* ---------------------------- bounds ----------------------------------- *)

\* largest items.id a Create may allocate
MaxId == 2

\* largest barcodes.id a Create/Associate may allocate
MaxBarcodeId == 2

\* largest items.id of the stores a merge is tried on
MaxMergeId == 3

\* largest recipes.id a create or import may allocate
MaxRecipeId == 1

\* largest recipe_steps.id a create, import or full update may allocate
MaxStepId == 2

(* ---------------------------- values ----------------------------------- *)

\* ItemLocation enum values
INVENTORY == "inventory"

GROCERY_LIST == "grocery_list"

NEITHER == "neither"

ItemLocation == {INVENTORY, GROCERY_LIST, NEITHER}

\* Optional[T]: None is the empty tuple, a present value x is <<x>>
None == << >>

Some(x) == <<x>>

\* Python truthiness of an Optional[str]: None and "" are falsy
Truthy(opt) == opt # None /\ opt[1] # ""

\* item names the requests carry (two differ only in case)
Names == {"milk", "Milk", "tea"}

\* barcode strings the requests carry (no format validation: "" is a str)
Codes == {"", "111"}

\* codes a lookup carries: a path segment is never empty, and one code is a
\* proper prefix of a code the store can hold
LookupCodes == {"111", "11"}

\* search strings the requests carry: "" , a mixed-case fragment, a fragment of
\* one name, and the two characters LIKE reads as wildcards
Queries == {"", "MI", "ea", "_", "%"}

\* the characters of the strings above, in order
Chars(s) ==
    CASE s = "milk" -> <<"m", "i", "l", "k">>
      [] s = "Milk" -> <<"M", "i", "l", "k">>
      [] s = "tea" -> <<"t", "e", "a">>
      [] s = "MI" -> <<"M", "I">>
      [] s = "ea" -> <<"e", "a">>
      [] s = "_" -> <<"_">>
      [] s = "%" -> <<"%">>
      [] OTHER -> << >>

\* the code point of a character: what BINARY collation compares
Ord(c) ==
    CASE c = "%" -> 37
      [] c = "I" -> 73
      [] c = "M" -> 77
      [] c = "_" -> 95
      [] c = "a" -> 97
      [] c = "e" -> 101
      [] c = "i" -> 105
      [] c = "k" -> 107
      [] c = "l" -> 108
      [] c = "m" -> 109
      [] c = "t" -> 116

\* SQL lower() of one character: ASCII letters only
LowerChar(c) ==
    CASE c = "I" -> "i"
      [] c = "M" -> "m"
      [] OTHER -> c

Lower(cs) == [k \in 1..Len(cs) |-> LowerChar(cs[k])]

\* item ids the requests carry: every allocatable id and one never created
RequestIds == 1..(MaxId + 1)

\* a request body field: None when the body leaves it out, Null when the
\* body gives JSON null, Given(v) when the body gives the value v
Null == Some(None)

Given(v) == Some(Some(v))

\* a recipe body with no field set (model_fields_set is empty)
NoFields ==
    [name |-> None, description |-> None, servings |-> None,
     prep_time_minutes |-> None, cook_time_minutes |-> None, is_favorite |-> None,
     ingredients |-> None, steps |-> None]

\* recipe ids the requests carry: every allocatable id and one never created
RecipeRequestIds == 1..(MaxRecipeId + 1)

\* HTTP status codes and error kinds of the handlers
OK == 200

BAD_REQUEST == 400

NOT_FOUND == 404

INTERNAL_ERROR == 500

SERVICE_UNAVAILABLE == 503

NoError == "ok"

DuplicateName == "Item with name already exists"

DuplicateBarcode == "Barcode already associated with item"

NotFound == "Item not found"

RecipeNotFound == "Recipe not found"

\* exceptions no handler catches: the server answers 500
AttributeError == "AttributeError: object has no attribute 'item_id'"

IntegrityError == "IntegrityError: NOT NULL constraint failed: recipes.name"

ResponseValidationError == "ResponseValidationError"

NotConfigured == "Spoonacular API is not configured"

ExternalError == "error reported by the recipe service"

GeminiNotConfigured == "Gemini API is not configured"

NoTitle == "Could not extract recipe from this URL"

NoInventory == "No items in inventory. Add some items first."

KeyError == "KeyError: 'name'"

(* ---------------------------- state ------------------------------------ *)

VARIABLES
    items,       \* rows of table items: [id, name, location]
    barcodes,    \* rows of table barcodes: [id, code, item_id]
    recipes,     \* rows of table recipes: [id, name, description, servings,
                 \*   prep_time_minutes, cook_time_minutes, is_favorite]
    ingredients, \* rows of table recipe_ingredients: [id, recipe_id, name, item_id]
    steps,       \* rows of table recipe_steps: [id, recipe_id, step_number, instruction]
    last,        \* the request under observation and its response
    pre,         \* the committed store that request's session started from
    sessions     \* the open get_db sessions of requests running side by side:
                 \*   each one's request, next statement and uncommitted writes

vars == <<items, barcodes, recipes, ingredients, steps, last, pre, sessions>>

\* INTEGER PRIMARY KEY without AUTOINCREMENT: SQLite gives max(rowid)+1
MaxOf(S) == CHOOSE m \in S : \A x \in S : x <= m

NextRowId(rows) == IF rows = {} THEN 1 ELSE MaxOf({r.id : r \in rows}) + 1

\* Query.first(): the matching row SQLite returns first (lowest rowid), as a
\* set with at most one element
First(rows) == IF rows = {} THEN {} ELSE {CHOOSE r \in rows : \A q \in rows : r.id <= q.id}

\* db.query(Item).filter(Item.id == item_id).first()
ItemById(its, item_id) == First({i \in its : i.id = item_id})

\* the name query of create_item left out
ItemByNameUnchecked(its, name) == {}

\* db.query(Item).filter(Item.name == name).first()
ItemByName(its, name) == First({i \in its : i.name = name})

\* Item.id == item_id written for Item.id != item_id
OtherItemByNameSameId(its, name, item_id) == First({i \in its : i.name = name /\ i.id = item_id})

\* the Item.id != item_id condition left out
OtherItemByNameAnyId(its, name, item_id) == First({i \in its : i.name = name})

\* db.query(Item).filter(Item.name == name, Item.id != item_id).first()
OtherItemByName(its, name, item_id) == First({i \in its : i.name = name /\ i.id # item_id})

\* the query never matches the empty code, as in "if code and ..."
BarcodeByCodeTruthy(bcs, code) == First({b \in bcs : b.code = code /\ code # ""})

\* db.query(Barcode).filter(Barcode.code == code).first()
BarcodeByCode(bcs, code) == First({b \in bcs : b.code = code})

\* Item.barcodes relationship: the barcode rows of one item
BarcodesOf(bcs, item_id) == {b \in bcs : b.item_id = item_id}

\* the relationship declared without a cascade
CascadeNothing(bcs, item_id) == {}

\* only one barcode row of the item is taken along
CascadeFirstOnly(bcs, item_id) == First(BarcodesOf(bcs, item_id))

\* cascade="all, delete-orphan": the rows a delete of the item takes along
CascadeDeleted(bcs, item_id) == BarcodesOf(bcs, item_id)

Store ==
    [items |-> items, barcodes |-> barcodes,
     recipes |-> recipes, ingredients |-> ingredients, steps |-> steps]

\* a request on the item store
Request(op, item_id, name, location, barcode) ==
    [op |-> op, item_id |-> item_id, name |-> name, location |-> location, barcode |-> barcode,
     recipe_id |-> 0, update |-> NoFields, source_ids |-> << >>, replies |-> << >>]

\* a request on the recipe store: the path id and the JSON body
RecipeRequest(op, recipe_id, update) ==
    [op |-> op, item_id |-> 0, name |-> None, location |-> None, barcode |-> None,
     recipe_id |-> recipe_id, update |-> update, source_ids |-> << >>, replies |-> << >>]

\* a response without a body the claims read
Response(req, status, error, ret) ==
    [op |-> req.op, item_id |-> req.item_id, name |-> req.name,
     location |-> req.location, barcode |-> req.barcode,
     recipe_id |-> req.recipe_id, update |-> req.update, source_ids |-> req.source_ids,
     replies |-> req.replies,
     status |-> status, error |-> error, ret |-> ret, body |-> << >>]

\* a response with its JSON body, as a sequence
ResponseWith(req, body) ==
    [Response(req, OK, NoError, 0) EXCEPT !.body = body]

\* no request is under observation
NoRequest == Response(Request("none", 0, None, None, None), OK, NoError, 0)

NoStore == [items |-> {}, barcodes |-> {}, recipes |-> {}, ingredients |-> {}, steps |-> {}]

\* A run is any sequence of requests followed by one request that is observed:
\* its arguments, its response and the store it started from are kept in
\* last and pre, the way a test of tests/test_api.py arranges a store with
\* requests and then asserts on one response.  Every request of every
\* reachable store is observed in some run.
\* Where requests go on after the observed one (ReuseSpec), last and pre keep
\* the observed request while the store moves on.
ObserveWith(req, status, error, ret, body) ==
    IF last = NoRequest
    THEN /\ last' \in {NoRequest, [Response(req, status, error, ret) EXCEPT !.body = body]}
         /\ pre' = IF last' = NoRequest THEN NoStore ELSE Store
    ELSE UNCHANGED <<last, pre>>

Observe(req, status, error, ret) == ObserveWith(req, status, error, ret, << >>)

\* a handler that only reads: the store is left alone and the body returned
Read(req, body) ==
    /\ IF last = NoRequest
       THEN /\ last' \in {NoRequest, ResponseWith(req, body)}
            /\ pre' = IF last' = NoRequest THEN NoStore ELSE Store
       ELSE UNCHANGED <<last, pre>>
    /\ UNCHANGED <<items, barcodes, recipes, ingredients, steps>>

\* raise HTTPException: the session is closed without a commit
Fail(req, status, error) ==
    /\ Observe(req, status, error, 0)
    /\ UNCHANGED <<items, barcodes, recipes, ingredients, steps>>

\* the requests that can be in progress at once
Sessions == {1, 2}

\* a session no request has opened
Idle ==
    [pc |-> "idle", op |-> "none", name |-> "", barcode |-> None, recipe_id |-> 0,
     update |-> NoFields, writing |-> FALSE, tx |-> NoStore, new_id |-> 0,
     status |-> 0, error |-> NoError]

NoSessions == [s \in Sessions |-> Idle]

Init ==
    /\ items = {}
    /\ barcodes = {}
    /\ recipes = {}
    /\ ingredients = {}
    /\ steps = {}
    /\ last = NoRequest
    /\ pre = NoStore
    /\ sessions = NoSessions

(* ---------------------------- handlers --------------------------------- *)

\* POST /api/items
create_item(name, location, barcode) ==
    LET req == Request("create_item", 0, Some(name), location, barcode)
        loc == IF location = None THEN NEITHER ELSE location[1]
        new_id == NextRowId(items)
        new_bid == NextRowId(barcodes)
    IN  IF ItemByName(items, name) # {}
        THEN Fail(req, BAD_REQUEST, DuplicateName)
        ELSE IF Truthy(barcode) /\ BarcodeByCode(barcodes, barcode[1]) # {}
        THEN Fail(req, BAD_REQUEST, DuplicateBarcode)
        ELSE /\ new_id <= MaxId
             /\ Truthy(barcode) => new_bid <= MaxBarcodeId
             /\ items' = items \cup {[id |-> new_id, name |-> name, location |-> loc]}
             /\ barcodes' = IF Truthy(barcode)
                            THEN barcodes \cup {[id |-> new_bid, code |-> barcode[1], item_id |-> new_id]}
                            ELSE barcodes
             /\ Observe(req, OK, NoError, new_id)

\* associate_barcode without its "Find the item" check
associate_barcode_unchecked(code, item_id) ==
    LET req == Request("associate_barcode", item_id, None, None, Some(code))
        new_bid == NextRowId(barcodes)
    IN  IF BarcodeByCode(barcodes, code) # {}
        THEN Fail(req, BAD_REQUEST, DuplicateBarcode)
        ELSE /\ new_bid <= MaxBarcodeId
             /\ barcodes' = barcodes \cup {[id |-> new_bid, code |-> code, item_id |-> item_id]}
             /\ Observe(req, OK, NoError, item_id)
             /\ UNCHANGED items

\* POST /api/barcode/associate
associate_barcode(code, item_id) ==
    LET req == Request("associate_barcode", item_id, None, None, Some(code))
        new_bid == NextRowId(barcodes)
    IN  IF BarcodeByCode(barcodes, code) # {}
        THEN Fail(req, BAD_REQUEST, DuplicateBarcode)
        ELSE IF ItemById(items, item_id) = {}
        THEN Fail(req, NOT_FOUND, NotFound)
        ELSE /\ new_bid <= MaxBarcodeId
             /\ barcodes' = barcodes \cup {[id |-> new_bid, code |-> code, item_id |-> item_id]}
             /\ Observe(req, OK, NoError, item_id)
             /\ UNCHANGED items

\* update_item without its "if update.location is not None" assignment
update_item_name_only(item_id, name, location) ==
    LET req == Request("update_item", item_id, name, location, None)
    IN  IF ItemById(items, item_id) = {}
        THEN Fail(req, NOT_FOUND, NotFound)
        ELSE IF name # None /\ OtherItemByName(items, name[1], item_id) # {}
        THEN Fail(req, BAD_REQUEST, DuplicateName)
        ELSE /\ items' = {IF i.id = item_id
                          THEN [id |-> i.id,
                                name |-> IF name # None THEN name[1] ELSE i.name,
                                location |-> i.location]
                          ELSE i : i \in items}
             /\ Observe(req, OK, NoError, item_id)
             /\ UNCHANGED barcodes

\* PATCH /api/items/{item_id}
update_item(item_id, name, location) ==
    LET req == Request("update_item", item_id, name, location, None)
    IN  IF ItemById(items, item_id) = {}
        THEN Fail(req, NOT_FOUND, NotFound)
        ELSE IF name # None /\ OtherItemByName(items, name[1], item_id) # {}
        THEN Fail(req, BAD_REQUEST, DuplicateName)
        ELSE /\ items' = {IF i.id = item_id
                          THEN [id |-> i.id,
                                name |-> IF name # None THEN name[1] ELSE i.name,
                                location |-> IF location # None THEN location[1] ELSE i.location]
                          ELSE i : i \in items}
             /\ Observe(req, OK, NoError, item_id)
             /\ UNCHANGED barcodes

\* delete_item answering 200 whether or not the item is there
delete_item_idempotent(item_id) ==
    /\ items' = items \ ItemById(items, item_id)
    /\ barcodes' = barcodes \ CascadeDeleted(barcodes, item_id)
    /\ Observe(Request("delete_item", item_id, None, None, None), OK, NoError, item_id)

\* DELETE /api/items/{item_id}
delete_item(item_id) ==
    LET req == Request("delete_item", item_id, None, None, None)
    IN  IF ItemById(items, item_id) = {}
        THEN Fail(req, NOT_FOUND, NotFound)
        ELSE /\ items' = items \ ItemById(items, item_id)
             /\ barcodes' = barcodes \ CascadeDeleted(barcodes, item_id)
             /\ Observe(req, OK, NoError, item_id)

\* the three shortcuts share one body: item.location = <target>
MoveItem(op, item_id, target) ==
    LET req == Request(op, item_id, None, None, None)
    IN  IF ItemById(items, item_id) = {}
        THEN Fail(req, NOT_FOUND, NotFound)
        ELSE /\ items' = {IF i.id = item_id
                          THEN [id |-> i.id, name |-> i.name, location |-> target]
                          ELSE i : i \in items}
             /\ Observe(req, OK, NoError, item_id)
             /\ UNCHANGED barcodes

\* POST /api/items/{item_id}/to-inventory
move_to_inventory(item_id) == MoveItem("move_to_inventory", item_id, INVENTORY)

\* move_to_grocery pasted from move_to_inventory with the location kept
move_to_grocery_pasted(item_id) == MoveItem("move_to_grocery", item_id, INVENTORY)

\* POST /api/items/{item_id}/to-grocery
move_to_grocery(item_id) == MoveItem("move_to_grocery", item_id, GROCERY_LIST)

\* POST /api/items/{item_id}/remove
remove_from_lists(item_id) == MoveItem("remove_from_lists", item_id, NEITHER)

\* the lookup answering with whatever barcode row comes first
lookup_barcode_first(bcs, its, code) ==
    LET barcode == First(bcs)
    IN  IF barcode # {}
        THEN [found |-> TRUE, barcode |-> code,
              item |-> {i \in its : \E b \in barcode : i.id = b.item_id}]
        ELSE [found |-> FALSE, barcode |-> code, item |-> {}]

\* GET /api/barcode/{code}: the response, computed on a given store
lookup_barcode(bcs, its, code) ==
    LET barcode == BarcodeByCode(bcs, code)
    IN  IF barcode # {}
        THEN [found |-> TRUE, barcode |-> code,
              item |-> {i \in its : \E b \in barcode : i.id = b.item_id}]
        ELSE [found |-> FALSE, barcode |-> code, item |-> {}]

\* GET /api/items/{item_id}: the response status, computed on a given store
get_item(its, item_id) == IF ItemById(its, item_id) = {} THEN NOT_FOUND ELSE OK

\* GET /api/items/{item_id} as a request
GetItem(item_id) ==
    LET req == Request("get_item", item_id, None, None, None)
    IN  IF ItemById(items, item_id) = {}
        THEN Fail(req, NOT_FOUND, NotFound)
        ELSE Read(req, <<CHOOSE i \in ItemById(items, item_id) : TRUE>>)

\* GET /api/barcode/{code} as a request
LookupBarcode(code) ==
    Read(Request("lookup_barcode", 0, None, None, Some(code)),
         <<lookup_barcode(barcodes, items, code)>>)

\* a < b for two character sequences, code point by code point
RECURSIVE SeqLess(_, _)
SeqLess(a, b) ==
    IF b = << >> THEN FALSE
    ELSE IF a = << >> THEN TRUE
    ELSE IF Ord(Head(a)) # Ord(Head(b)) THEN Ord(Head(a)) < Ord(Head(b))
    ELSE SeqLess(Tail(a), Tail(b))

\* the rows in the order the database happens to hold them (by rowid)
RECURSIVE OrderById(_)
OrderById(rows) ==
    IF rows = {} THEN << >>
    ELSE LET r == CHOOSE x \in rows : \A y \in rows : x.id <= y.id
         IN  <<r>> \o OrderById(rows \ {r})

\* order_by(Item.name): ascending, BINARY collation, rowid among equal names
RECURSIVE OrderByName(_)
OrderByName(rows) ==
    IF rows = {} THEN << >>
    ELSE LET r == CHOOSE x \in rows : \A y \in rows :
                      \/ SeqLess(Chars(x.name), Chars(y.name))
                      \/ (x.name = y.name /\ x.id <= y.id)
         IN  <<r>> \o OrderByName(rows \ {r})

\* GET /api/items: the response, computed on a given store
list_items(its, location) ==
    OrderByName(IF location # None THEN {i \in its : i.location = location[1]} ELSE its)

\* GET /api/items as a request
ListItems(location) ==
    Read(Request("list_items", 0, None, location, None), list_items(items, location))

\* get_grocery_list with the filter of the unfiltered listing
get_grocery_list_unfiltered(its) ==
    LET rows == OrderByName(its)
    IN  [count |-> Len(rows), items |-> rows]

\* GET /api/inventory: the response, computed on a given store
get_inventory(its) ==
    LET rows == OrderByName({i \in its : i.location = INVENTORY})
    IN  [count |-> Len(rows), items |-> rows]

\* GET /api/grocery: the response, computed on a given store
get_grocery_list(its) ==
    LET rows == OrderByName({i \in its : i.location = GROCERY_LIST})
    IN  [count |-> Len(rows), items |-> rows]

\* GET /api/inventory as a request
GetInventory == Read(Request("get_inventory", 0, None, None, None), <<get_inventory(items)>>)

\* GET /api/grocery as a request
GetGroceryList == Read(Request("get_grocery_list", 0, None, None, None), <<get_grocery_list(items)>>)

\* SQL LIKE on character sequences: % matches any run, _ any one character
RECURSIVE Like(_, _)
Like(s, pattern) ==
    IF pattern = << >> THEN s = << >>
    ELSE IF Head(pattern) = "%"
    THEN Like(s, Tail(pattern)) \/ (s # << >> /\ Like(Tail(s), pattern))
    ELSE /\ s # << >>
         /\ Head(pattern) = "_" \/ Head(pattern) = Head(s)
         /\ Like(Tail(s), Tail(pattern))

\* Item.name.ilike(f"%{q}%"): lower(name) LIKE lower('%' || q || '%')
ILike(name, q) == Like(Lower(Chars(name)), Lower(<<"%">> \o Chars(q) \o <<"%">>))

\* GET /api/search: the response, computed on a given store
search_items(its, q) == OrderByName({i \in its : ILike(i.name, q)})

\* GET /api/search as a request; q travels in the name field
SearchItems(q) ==
    Read(Request("search_items", 0, Some(q), None, None), search_items(items, q))

OptNames == {None} \cup {Some(n) : n \in Names}

OptLocations == {None} \cup {Some(l) : l \in ItemLocation}

OptCodes == {None} \cup {Some(c) : c \in Codes}

\* no request has been observed yet: the run goes on
Running == last = NoRequest

\* requests handled one after the other, each from its first statement to
\* its response: no session stays open between two requests
Sequential == UNCHANGED sessions

\* the handlers of the item store never write the recipe tables
RecipesUntouched == UNCHANGED <<recipes, ingredients, steps>>

Next ==
    \/ Running /\ Sequential /\ RecipesUntouched /\ \E n \in Names, l \in OptLocations, b \in OptCodes : create_item(n, l, b)
    \/ Running /\ Sequential /\ RecipesUntouched /\ \E c \in Codes, id \in RequestIds : associate_barcode(c, id)
    \/ Running /\ Sequential /\ RecipesUntouched /\ \E id \in RequestIds, n \in OptNames, l \in OptLocations : update_item(id, n, l)
    \/ Running /\ Sequential /\ RecipesUntouched /\ \E id \in RequestIds : delete_item(id)
    \/ Running /\ Sequential /\ RecipesUntouched /\ \E id \in RequestIds : move_to_inventory(id)
    \/ Running /\ Sequential /\ RecipesUntouched /\ \E id \in RequestIds : move_to_grocery(id)
    \/ Running /\ Sequential /\ RecipesUntouched /\ \E id \in RequestIds : remove_from_lists(id)
    \/ Running /\ Sequential /\ RecipesUntouched /\ \E id \in RequestIds : GetItem(id)
    \/ Running /\ Sequential /\ RecipesUntouched /\ \E c \in LookupCodes : LookupBarcode(c)
    \/ Running /\ Sequential /\ RecipesUntouched /\ \E l \in OptLocations : ListItems(l)
    \/ Running /\ Sequential /\ RecipesUntouched /\ GetInventory
    \/ Running /\ Sequential /\ RecipesUntouched /\ GetGroceryList
    \/ Running /\ Sequential /\ RecipesUntouched /\ \E q \in Queries : SearchItems(q)

Spec == Init /\ [][Next]_vars

(* ---------------------------- recipe handlers -------------------------- *)

\* db.query(Recipe).filter(Recipe.id == recipe_id).first()
RecipeById(rs, recipe_id) == First({r \in rs : r.id = recipe_id})

\* the child rows of one recipe (filter on recipe_id)
RowsOf(rows, recipe_id) == {r \in rows : r.recipe_id = recipe_id}

\* a body field read as an attribute: an unset field reads as its default
Attr(field, default) == IF field = None THEN default ELSE field[1]

\* update.ingredients is not None / update.steps is not None
IsNotNone(field) == Attr(field, None) # None

\* the list a body gives for ingredients or steps ([] when it gives none)
ListOf(field) == IF IsNotNone(field) THEN field[1][1] ELSE << >>

\* the RecipeStep rows db.add() inserts for a list of steps, ids in list order
NewSteps(existing, recipe_id, list) ==
    {[id |-> NextRowId(existing) + k - 1, recipe_id |-> recipe_id,
      step_number |-> list[k].step_number, instruction |-> list[k].instruction] :
        k \in 1..Len(list)}

\* the RecipeIngredient rows an import inserts for a list of names: no item_id
NewIngredients(existing, recipe_id, list) ==
    {[id |-> NextRowId(existing) + k - 1, recipe_id |-> recipe_id,
      name |-> list[k], item_id |-> None] : k \in 1..Len(list)}

\* response_model=RecipeResponse: servings is an int and is_favorite a bool
Validates(r) == r.servings # None /\ r.is_favorite # None

\* the status of a handler that returns the recipe row r
Returned(r) == IF Validates(r) THEN OK ELSE INTERNAL_ERROR

ReturnedError(r) == IF Validates(r) THEN NoError ELSE ResponseValidationError

\* POST /api/recipes
create_recipe(recipe) ==
    LET req == RecipeRequest("create_recipe", 0, recipe)
        new_id == NextRowId(recipes)
        row == [id |-> new_id,
                name |-> recipe.name[1][1],
                description |-> Attr(recipe.description, None),
                servings |-> Attr(recipe.servings, Some(4)),
                prep_time_minutes |-> Attr(recipe.prep_time_minutes, None),
                cook_time_minutes |-> Attr(recipe.cook_time_minutes, None),
                is_favorite |-> Attr(recipe.is_favorite, Some(FALSE))]
        added == NewSteps(steps, new_id, ListOf(recipe.steps))
    IN  IF ListOf(recipe.ingredients) # << >>
        THEN Fail(req, INTERNAL_ERROR, AttributeError)
        ELSE /\ new_id <= MaxRecipeId
             /\ \A t \in added : t.id <= MaxStepId
             /\ recipes' = recipes \cup {row}
             /\ steps' = steps \cup added
             /\ UNCHANGED ingredients
             /\ Observe(req, OK, NoError, new_id)

\* the scalar loop without its "is not None" test: null is stored as given
SetNullable(r, update) ==
    LET new(field, old) == IF field # None THEN field[1] ELSE old
    IN  [id |-> r.id,
         name |-> IF IsNotNone(update.name) THEN update.name[1][1] ELSE r.name,
         description |-> new(update.description, r.description),
         servings |-> new(update.servings, r.servings),
         prep_time_minutes |-> new(update.prep_time_minutes, r.prep_time_minutes),
         cook_time_minutes |-> new(update.cook_time_minutes, r.cook_time_minutes),
         is_favorite |-> new(update.is_favorite, r.is_favorite)]

\* update_recipe_full's scalar loop: a field is set when the body gives it
\* and the value is not None
SetNotNone(r, update) ==
    LET new(field, old) == IF IsNotNone(field) THEN field[1] ELSE old
    IN  [id |-> r.id,
         name |-> IF IsNotNone(update.name) THEN update.name[1][1] ELSE r.name,
         description |-> new(update.description, r.description),
         servings |-> new(update.servings, r.servings),
         prep_time_minutes |-> new(update.prep_time_minutes, r.prep_time_minutes),
         cook_time_minutes |-> new(update.cook_time_minutes, r.cook_time_minutes),
         is_favorite |-> new(update.is_favorite, r.is_favorite)]

\* the loop over model_dump() without exclude_unset: a field the body leaves
\* out is set to None (name apart)
SetDumped(r, update) ==
    [id |-> r.id,
     name |-> IF IsNotNone(update.name) THEN update.name[1][1] ELSE r.name,
     description |-> Attr(update.description, None),
     servings |-> Attr(update.servings, None),
     prep_time_minutes |-> Attr(update.prep_time_minutes, None),
     cook_time_minutes |-> Attr(update.cook_time_minutes, None),
     is_favorite |-> Attr(update.is_favorite, None)]

\* update_recipe's loop over model_dump(exclude_unset=True): every field the
\* body gives is set, None included
SetGiven(r, update) ==
    LET new(field, old) == IF field # None THEN field[1] ELSE old
    IN  [id |-> r.id,
         name |-> IF IsNotNone(update.name) THEN update.name[1][1] ELSE r.name,
         description |-> new(update.description, r.description),
         servings |-> new(update.servings, r.servings),
         prep_time_minutes |-> new(update.prep_time_minutes, r.prep_time_minutes),
         cook_time_minutes |-> new(update.cook_time_minutes, r.cook_time_minutes),
         is_favorite |-> new(update.is_favorite, r.is_favorite)]

\* PATCH /api/recipes/{recipe_id}; recipes.name is NOT NULL, so the commit of
\* a None name raises and the session closes without a commit
update_recipe(recipe_id, update) ==
    LET req == RecipeRequest("update_recipe", recipe_id, update)
        recipe == RecipeById(recipes, recipe_id)
    IN  IF recipe = {}
        THEN Fail(req, NOT_FOUND, RecipeNotFound)
        ELSE IF update.name = Null
        THEN Fail(req, INTERNAL_ERROR, IntegrityError)
        ELSE LET new == SetGiven(CHOOSE r \in recipe : TRUE, update)
             IN  /\ recipes' = (recipes \ recipe) \cup {new}
                 /\ UNCHANGED <<ingredients, steps>>
                 /\ Observe(req, Returned(new), ReturnedError(new), recipe_id)

\* PUT /api/recipes/{recipe_id}
update_recipe_full(recipe_id, update) ==
    LET req == RecipeRequest("update_recipe_full", recipe_id, update)
        recipe == RecipeById(recipes, recipe_id)
        kept == steps \ RowsOf(steps, recipe_id)
        added == NewSteps(kept, recipe_id, ListOf(update.steps))
    IN  IF recipe = {}
        THEN Fail(req, NOT_FOUND, RecipeNotFound)
        ELSE IF ListOf(update.ingredients) # << >>
        THEN Fail(req, INTERNAL_ERROR, AttributeError)
        ELSE LET new == SetNotNone(CHOOSE r \in recipe : TRUE, update)
             IN  /\ recipes' = (recipes \ recipe) \cup {new}
                 /\ ingredients' = IF IsNotNone(update.ingredients)
                                   THEN ingredients \ RowsOf(ingredients, recipe_id)
                                   ELSE ingredients
                 /\ IF IsNotNone(update.steps)
                    THEN /\ \A t \in added : t.id <= MaxStepId
                         /\ steps' = kept \cup added
                    ELSE UNCHANGED steps
                 /\ Observe(req, Returned(new), ReturnedError(new), recipe_id)

\* the cascade "all, delete-orphan" left out: no child row goes with the recipe
RecipeCascadeNothing(rows, recipe_id) == {}

\* Recipe.ingredients and Recipe.steps cascade "all, delete-orphan": the rows
\* db.delete(recipe) deletes with the recipe
RecipeCascade(rows, recipe_id) == RowsOf(rows, recipe_id)

\* DELETE /api/recipes/{recipe_id}
delete_recipe(recipe_id) ==
    LET req == RecipeRequest("delete_recipe", recipe_id, NoFields)
        recipe == RecipeById(recipes, recipe_id)
    IN  IF recipe = {}
        THEN Fail(req, NOT_FOUND, RecipeNotFound)
        ELSE /\ recipes' = recipes \ recipe
             /\ ingredients' = ingredients \ RecipeCascade(ingredients, recipe_id)
             /\ steps' = steps \ RecipeCascade(steps, recipe_id)
             /\ Observe(req, OK, NoError, recipe_id)

\* a toggle that always sets the flag
PyTrue(flag) == TRUE

\* Python's not on a nullable Boolean column: not None is True
PyNot(flag) == IF flag = None THEN TRUE ELSE ~flag[1]

\* POST /api/recipes/{recipe_id}/favorite
toggle_favorite(recipe_id) ==
    LET req == RecipeRequest("toggle_favorite", recipe_id, NoFields)
        recipe == RecipeById(recipes, recipe_id)
    IN  IF recipe = {}
        THEN Fail(req, NOT_FOUND, RecipeNotFound)
        ELSE LET old == CHOOSE r \in recipe : TRUE
                 new == [old EXCEPT !.is_favorite = Some(PyNot(old.is_favorite))]
             IN  /\ recipes' = (recipes \ recipe) \cup {new}
                 /\ UNCHANGED <<ingredients, steps>>
                 /\ ObserveWith(req, Returned(new), ReturnedError(new), recipe_id,
                                IF Validates(new) THEN <<new>> ELSE << >>)

\* what the recipe service and the parser hand to the import
ImportedName == "Stew"

ImportedIngredients == <<"salt", "oil">>

ImportedSteps == <<[step_number |-> 1, instruction |-> "boil"]>>

\* the outcomes of the call to the recipe service (Spoonacular): the key is
\* not set, the request fails, or the recipe data comes back
ServiceReplies == {"not configured", "error", "recipe"}

\* extract_recipe_from_url may also hand back data without a title
ExtractReplies == ServiceReplies \cup {"no title"}

\* the outcomes of the parser (Gemini): the key is not set, the JSON comes
\* back well formed, the text is not JSON, the call raises, or the JSON has an
\* ingredient without a name
ParserReplies == {"not configured", "parsed", "unparsable", "failed", "malformed"}

\* local_data["ingredients"] as names: convert_to_local_recipe, Gemini's JSON
\* and the JSONDecodeError fallback carry the recipe's ingredients, the
\* fallback for any other exception none; a missing name reads as "" where
\* the handler uses ing.get("name", "")
ParsedIngredients(parser) ==
    IF parser = "failed" THEN << >>
    ELSE IF parser = "malformed" THEN <<"">>
    ELSE ImportedIngredients

ParsedSteps(parser) == IF parser = "failed" THEN << >> ELSE ImportedSteps

\* an import whose db.flush() is a commit: the recipe row stays when a later
\* statement raises
ImportRecipeFlushed(op, service, parser, lenient) ==
    LET req == [RecipeRequest(op, 0, NoFields) EXCEPT !.replies = <<service, parser>>]
        new_id == NextRowId(recipes)
        row == [id |-> new_id, name |-> ImportedName, description |-> None,
                servings |-> Some(4), prep_time_minutes |-> None,
                cook_time_minutes |-> None, is_favorite |-> Some(FALSE)]
        added == NewSteps(steps, new_id, ParsedSteps(parser))
    IN  IF service = "not configured"
        THEN Fail(req, SERVICE_UNAVAILABLE, NotConfigured)
        ELSE IF service = "error"
        THEN Fail(req, INTERNAL_ERROR, ExternalError)
        ELSE IF service = "no title"
        THEN Fail(req, BAD_REQUEST, NoTitle)
        ELSE IF parser = "malformed" /\ ~lenient
        THEN /\ new_id <= MaxRecipeId
             /\ recipes' = recipes \cup {row}
             /\ UNCHANGED <<ingredients, steps>>
             /\ Observe(req, INTERNAL_ERROR, KeyError, 0)
        ELSE /\ new_id <= MaxRecipeId
             /\ \A t \in added : t.id <= MaxStepId
             /\ recipes' = recipes \cup {row}
             /\ ingredients' = ingredients \cup NewIngredients(ingredients, new_id, ParsedIngredients(parser))
             /\ steps' = steps \cup added
             /\ Observe(req, OK, NoError, new_id)

\* the body the two imports share; lenient is the handler reading ingredient
\* and step fields with .get() and a default
ImportRecipe(op, service, parser, lenient) ==
    LET req == [RecipeRequest(op, 0, NoFields) EXCEPT !.replies = <<service, parser>>]
        new_id == NextRowId(recipes)
        row == [id |-> new_id, name |-> ImportedName, description |-> None,
                servings |-> Some(4), prep_time_minutes |-> None,
                cook_time_minutes |-> None, is_favorite |-> Some(FALSE)]
        added == NewSteps(steps, new_id, ParsedSteps(parser))
    IN  IF service = "not configured"
        THEN Fail(req, SERVICE_UNAVAILABLE, NotConfigured)
        ELSE IF service = "error"
        THEN Fail(req, INTERNAL_ERROR, ExternalError)
        ELSE IF service = "no title"
        THEN Fail(req, BAD_REQUEST, NoTitle)
        ELSE IF parser = "malformed" /\ ~lenient
        THEN Fail(req, INTERNAL_ERROR, KeyError)
        ELSE /\ new_id <= MaxRecipeId
             /\ \A t \in added : t.id <= MaxStepId
             /\ recipes' = recipes \cup {row}
             /\ ingredients' = ingredients \cup NewIngredients(ingredients, new_id, ParsedIngredients(parser))
             /\ steps' = steps \cup added
             /\ Observe(req, OK, NoError, new_id)

\* POST /api/spoonacular/import/{recipe_id}
import_spoonacular_recipe(service, parser) ==
    ImportRecipe("import_spoonacular_recipe", service, parser, FALSE)

\* POST /api/recipes/import-url
import_recipe_from_url(service, parser) ==
    ImportRecipe("import_recipe_from_url", service, parser, TRUE)

\* the two suggestion endpoints share one body; needs_inventory is the
\* "if not item_names" test that only get_recipe_suggestions makes
Suggest(op, parser, needs_inventory) ==
    LET req == [RecipeRequest(op, 0, NoFields) EXCEPT !.replies = <<"not called", parser>>]
    IN  IF parser = "not configured"
        THEN Fail(req, SERVICE_UNAVAILABLE, GeminiNotConfigured)
        ELSE IF needs_inventory /\ {i \in items : i.location = INVENTORY} = {}
        THEN Fail(req, BAD_REQUEST, NoInventory)
        ELSE IF parser \in {"unparsable", "failed"}
        THEN Fail(req, INTERNAL_ERROR, ExternalError)
        ELSE IF parser = "malformed"
        THEN Fail(req, INTERNAL_ERROR, ResponseValidationError)
        ELSE Read(req, <<"suggestions">>)

\* POST /api/ai/recipe-suggestions
get_recipe_suggestions(parser) == Suggest("get_recipe_suggestions", parser, TRUE)

\* POST /api/ai/grocery-suggestions
get_grocery_suggestions(parser) == Suggest("get_grocery_suggestions", parser, FALSE)

\* the steps the bodies carry
Boil == [step_number |-> 1, instruction |-> "boil"]

Serve == [step_number |-> 2, instruction |-> "serve"]

\* POST bodies: the least one, one with every scalar and a step, one with an
\* ingredient, and one whose step numbers repeat and leave a gap
RecipeCreates ==
    {[NoFields EXCEPT !.name = Given("Soup")],
     [NoFields EXCEPT !.name = Given("Stew"), !.description = Given("thick"),
                      !.servings = Given(6), !.prep_time_minutes = Given(5),
                      !.is_favorite = Given(TRUE), !.steps = Given(<<Boil>>)],
     [NoFields EXCEPT !.name = Given("Soup"), !.ingredients = Given(<<"salt">>)],
     [NoFields EXCEPT !.name = Given("Broth"), !.steps = Given(<<Serve, Serve>>)]}

\* PATCH bodies: every scalar field is left out by one body, given a value by
\* one and given null by one
RecipeUpdates ==
    {NoFields,
     [NoFields EXCEPT !.name = Given("Stew"), !.servings = Given(6)],
     [NoFields EXCEPT !.name = Given("Stew"), !.description = Given("thick"),
                      !.servings = Given(6), !.prep_time_minutes = Given(5),
                      !.is_favorite = Given(TRUE)],
     [NoFields EXCEPT !.description = Null, !.servings = Null,
                      !.prep_time_minutes = Null, !.cook_time_minutes = Null,
                      !.is_favorite = Null],
     [NoFields EXCEPT !.cook_time_minutes = Given(10)],
     [NoFields EXCEPT !.name = Null, !.servings = Given(6)]}

\* PUT bodies: ingredients and steps left out, null, empty and non-empty,
\* alone and together, and scalars with values and with null
RecipeFullUpdates ==
    {NoFields,
     [NoFields EXCEPT !.ingredients = Given(<< >>)],
     [NoFields EXCEPT !.ingredients = Given(<<"salt">>)],
     [NoFields EXCEPT !.steps = Given(<< >>)],
     [NoFields EXCEPT !.steps = Given(<<Boil, Serve>>)],
     [NoFields EXCEPT !.ingredients = Given(<< >>), !.steps = Given(<<Boil, Serve>>)],
     [NoFields EXCEPT !.name = Null, !.description = Null, !.servings = Null,
                      !.prep_time_minutes = Null, !.cook_time_minutes = Null,
                      !.is_favorite = Null, !.ingredients = Null, !.steps = Null],
     [NoFields EXCEPT !.name = Given("Stew"), !.description = Given("thick"),
                      !.servings = Given(6), !.prep_time_minutes = Given(5),
                      !.cook_time_minutes = Null, !.is_favorite = Given(TRUE)]}

\* the handlers of the recipe store never write items or barcodes
ItemsUntouched == UNCHANGED <<items, barcodes>>

RecipeNext ==
    \/ Running /\ Sequential /\ ItemsUntouched /\ \E r \in RecipeCreates : create_recipe(r)
    \/ Running /\ Sequential /\ ItemsUntouched /\ \E id \in RecipeRequestIds, u \in RecipeUpdates : update_recipe(id, u)
    \/ Running /\ Sequential /\ ItemsUntouched /\ \E id \in RecipeRequestIds, u \in RecipeFullUpdates : update_recipe_full(id, u)
    \/ Running /\ Sequential /\ ItemsUntouched /\ \E service \in ServiceReplies, parser \in ParserReplies :
            import_spoonacular_recipe(service, parser)
    \/ Running /\ Sequential /\ ItemsUntouched /\ \E id \in RecipeRequestIds : delete_recipe(id)
    \/ Running /\ Sequential /\ ItemsUntouched /\ \E id \in RecipeRequestIds : toggle_favorite(id)

\* the recipe store on its own: no item request is made
RecipeSpec == Init /\ [][RecipeNext]_vars

(* ----------------------- items and recipes together -------------------- *)

\* ON DELETE SET NULL, which the foreign key does not declare
ItemDeleteSetNull(ings, item_id) ==
    {IF g.item_id = Some(item_id) THEN [g EXCEPT !.item_id = None] ELSE g : g \in ings}

\* RecipeIngredient.item_id is a plain ForeignKey("items.id"): no ondelete, no
\* cascade from Item, and SQLite does not enforce it, so db.delete(item)
\* leaves the ingredient rows as they are
ItemDeleteOnIngredients(ings, item_id) == ings

\* a database in which an ingredient is matched to an item (item_id is set),
\* next to one that is not; the request schema carries no item_id, so such a
\* row is written through the model layer, not through POST or PUT
LinkedStore ==
    [items |-> {[id |-> 1, name |-> "milk", location |-> INVENTORY]},
     barcodes |-> {[id |-> 1, code |-> "111", item_id |-> 1]},
     recipes |-> {[id |-> 1, name |-> "Stew", description |-> None, servings |-> Some(4),
                   prep_time_minutes |-> None, cook_time_minutes |-> None,
                   is_favorite |-> Some(FALSE)]},
     ingredients |-> {[id |-> 1, recipe_id |-> 1, name |-> "melk", item_id |-> Some(1)],
                      [id |-> 2, recipe_id |-> 1, name |-> "salt", item_id |-> None]},
     steps |-> {[id |-> 1, recipe_id |-> 1, step_number |-> 1, instruction |-> "boil"]}]

\* the application starts on an empty database or on the linked one
LinkInit ==
    /\ \E st \in {NoStore, LinkedStore} :
          /\ items = st.items
          /\ barcodes = st.barcodes
          /\ recipes = st.recipes
          /\ ingredients = st.ingredients
          /\ steps = st.steps
    /\ last = NoRequest
    /\ pre = NoStore
    /\ sessions = NoSessions

LinkNext ==
    \/ Running /\ Sequential /\ RecipesUntouched /\ \E n \in Names, l \in {None, Some(INVENTORY)}, b \in {None, Some("111")} :
            create_item(n, l, b)
    \/ Running /\ Sequential /\ UNCHANGED <<recipes, steps>> /\ \E id \in RequestIds :
            delete_item(id) /\ ingredients' = ItemDeleteOnIngredients(ingredients, id)
    \/ Running /\ Sequential /\ ItemsUntouched /\ \E service \in ServiceReplies, parser \in ParserReplies :
            import_spoonacular_recipe(service, parser)
    \/ Running /\ Sequential /\ ItemsUntouched /\ \E service \in ExtractReplies, parser \in ParserReplies :
            import_recipe_from_url(service, parser)
    \/ Running /\ Sequential /\ \E parser \in ParserReplies : get_recipe_suggestions(parser)
    \/ Running /\ Sequential /\ \E parser \in ParserReplies : get_grocery_suggestions(parser)
    \/ Running /\ Sequential /\ ItemsUntouched /\ \E id \in RecipeRequestIds : delete_recipe(id)

\* item requests, imports and suggestions on one database
LinkSpec == LinkInit /\ [][LinkNext]_vars

\* view_recipe_page's "if ing.item_id and ing.matched_item": the name of the
\* item the ingredient is matched to, None when item_id is null or no item
\* has that id
MatchedName(ing, its) ==
    IF ing.item_id # None /\ ItemById(its, ing.item_id[1]) # {}
    THEN Some((CHOOSE i \in ItemById(its, ing.item_id[1]) : TRUE).name)
    ELSE None

\* GET /recipe/{recipe_id}: the ingredient lines of the page
view_recipe_page(recipe_id) ==
    LET req == RecipeRequest("view_recipe_page", recipe_id, NoFields)
        own == OrderById(RowsOf(ingredients, recipe_id))
    IN  IF RecipeById(recipes, recipe_id) = {}
        THEN Fail(req, NOT_FOUND, RecipeNotFound)
        ELSE Read(req, [k \in 1..Len(own) |->
                          [name |-> own[k].name, matched_name |-> MatchedName(own[k], items)]])

\* Requests go on after the observed one: last and pre keep the observed
\* request while items are created and deleted.
ReuseNext ==
    \/ Sequential /\ RecipesUntouched /\ \E n \in Names, l \in {None, Some(INVENTORY)} : create_item(n, l, None)
    \/ Sequential /\ UNCHANGED <<recipes, steps>> /\ \E id \in RequestIds :
            delete_item(id) /\ ingredients' = ItemDeleteOnIngredients(ingredients, id)
    \/ Sequential /\ \E id \in RecipeRequestIds : view_recipe_page(id)

\* the life of item ids: creates and deletes in any order, on either database
ReuseSpec == LinkInit /\ [][ReuseNext]_vars

(* --------------------- requests running side by side ------------------ *)

DatabaseLocked == "OperationalError: database is locked"

UniqueViolation == "IntegrityError: UNIQUE constraint failed"

Interrupted == "the request was interrupted before its response"

\* the names the two requests carry: they differ
ItemNameOf(s) == IF s = 1 THEN "Milk" ELSE "tea"

RecipeNameOf(s) == IF s = 1 THEN "Soup" ELSE "Broth"

\* what a session's queries read: its own uncommitted writes once it has
\* written, the committed database before
View(s) == IF sessions[s].writing THEN sessions[s].tx ELSE Store

\* SQLite has one writer: no other session has uncommitted writes
LockFree(s) == \A t \in Sessions \ {s} : ~sessions[t].writing

Set(s, rec) == sessions' = [sessions EXCEPT ![s] = rec] /\ UNCHANGED <<last, pre>>

Keep == UNCHANGED <<items, barcodes, recipes, ingredients, steps>>

SetStore(st) ==
    /\ items' = st.items
    /\ barcodes' = st.barcodes
    /\ recipes' = st.recipes
    /\ ingredients' = st.ingredients
    /\ steps' = st.steps

\* the statement goes on to the next one without writing
Goto(s, pc) == Set(s, [sessions[s] EXCEPT !.pc = pc]) /\ Keep

\* an exception leaves the handler: get_db closes the session, which rolls
\* back what it has not committed
Raise(s, status, error) ==
    /\ Set(s, [sessions[s] EXCEPT !.pc = "done", !.writing = FALSE, !.tx = NoStore,
                                  !.status = status, !.error = error])
    /\ Keep

\* a flush that writes straight into the committed database
WriteThrough(s, st, pc, new_id) ==
    /\ LockFree(s)
    /\ SetStore(st)
    /\ Set(s, [sessions[s] EXCEPT !.pc = pc, !.new_id = new_id])

\* db.flush() or a bulk delete: the rows are written inside the session's
\* transaction, which takes the write lock and shows them to no one else
Write(s, st, pc, new_id) ==
    /\ LockFree(s)
    /\ Set(s, [sessions[s] EXCEPT !.pc = pc, !.writing = TRUE, !.tx = st, !.new_id = new_id])
    /\ Keep

\* db.commit(): the one point where the session's writes reach the database
Commit(s, st) ==
    /\ LockFree(s)
    /\ SetStore(st)
    /\ Set(s, [sessions[s] EXCEPT !.pc = "done", !.writing = FALSE, !.tx = NoStore,
                                  !.status = OK])

\* POST /api/items arrives
tx_create_item(s, barcode) ==
    /\ sessions[s].pc = "idle"
    /\ Set(s, [Idle EXCEPT !.pc = "name check", !.op = "create_item",
                           !.name = ItemNameOf(s), !.barcode = barcode])
    /\ Keep

\* create_item: "Check if item name already exists"
tx_name_check(s) ==
    /\ sessions[s].pc = "name check"
    /\ IF ItemByName(View(s).items, sessions[s].name) # {}
       THEN Raise(s, BAD_REQUEST, DuplicateName)
       ELSE Goto(s, "barcode check")

\* create_item: "Check if barcode already exists"
tx_barcode_check(s) ==
    /\ sessions[s].pc = "barcode check"
    /\ IF Truthy(sessions[s].barcode) /\ BarcodeByCode(View(s).barcodes, sessions[s].barcode[1]) # {}
       THEN Raise(s, BAD_REQUEST, DuplicateBarcode)
       ELSE Goto(s, "insert item")

\* create_item: db.add(db_item); db.flush(); items.name is UNIQUE
tx_insert_item(s) ==
    LET new_id == NextRowId(View(s).items)
        row == [id |-> new_id, name |-> sessions[s].name, location |-> NEITHER]
    IN  /\ sessions[s].pc = "insert item"
        /\ LockFree(s)
        /\ IF \E i \in View(s).items : i.name = sessions[s].name
           THEN Raise(s, INTERNAL_ERROR, UniqueViolation)
           ELSE /\ new_id <= MaxId
                /\ Write(s, [View(s) EXCEPT !.items = @ \cup {row}], "commit item", new_id)

\* create_item: db.add(barcode); db.commit(); barcodes.code is UNIQUE
tx_commit_item(s) ==
    LET me == sessions[s]
        new_bid == NextRowId(View(s).barcodes)
        row == [id |-> new_bid, code |-> me.barcode[1], item_id |-> me.new_id]
    IN  /\ me.pc = "commit item"
        /\ IF ~Truthy(me.barcode)
           THEN Commit(s, View(s))
           ELSE IF \E b \in View(s).barcodes : b.code = me.barcode[1]
           THEN LockFree(s) /\ Raise(s, INTERNAL_ERROR, UniqueViolation)
           ELSE /\ new_bid <= MaxBarcodeId
                /\ Commit(s, [View(s) EXCEPT !.barcodes = @ \cup {row}])

\* POST /api/recipes arrives
tx_create_recipe(s, recipe) ==
    /\ sessions[s].pc = "idle"
    /\ Set(s, [Idle EXCEPT !.pc = "add recipe", !.op = "create_recipe",
                           !.name = RecipeNameOf(s),
                           !.update = [recipe EXCEPT !.name = Given(RecipeNameOf(s))]])
    /\ Keep

\* create_recipe: db.add(db_recipe); db.flush()
tx_add_recipe(s) ==
    LET me == sessions[s]
        new_id == NextRowId(View(s).recipes)
        row == [id |-> new_id,
                name |-> me.name,
                description |-> Attr(me.update.description, None),
                servings |-> Attr(me.update.servings, Some(4)),
                prep_time_minutes |-> Attr(me.update.prep_time_minutes, None),
                cook_time_minutes |-> Attr(me.update.cook_time_minutes, None),
                is_favorite |-> Attr(me.update.is_favorite, Some(FALSE))]
    IN  /\ me.pc = "add recipe"
        /\ new_id <= MaxRecipeId
        /\ Write(s, [View(s) EXCEPT !.recipes = @ \cup {row}], "add children", new_id)

\* create_recipe: the loops over recipe.ingredients and recipe.steps
tx_add_children(s) ==
    LET me == sessions[s]
        added == NewSteps(View(s).steps, me.new_id, ListOf(me.update.steps))
    IN  /\ me.pc = "add children"
        /\ IF ListOf(me.update.ingredients) # << >>
           THEN Raise(s, INTERNAL_ERROR, AttributeError)
           ELSE /\ \A t \in added : t.id <= MaxStepId
                /\ Write(s, [View(s) EXCEPT !.steps = @ \cup added], "commit recipe", me.new_id)

\* create_recipe: db.commit()
tx_commit_recipe(s) ==
    /\ sessions[s].pc = "commit recipe"
    /\ Commit(s, View(s))

\* PUT /api/recipes/{recipe_id} arrives
tx_update_recipe_full(s, recipe_id, update) ==
    /\ sessions[s].pc = "idle"
    /\ Set(s, [Idle EXCEPT !.pc = "load recipe", !.op = "update_recipe_full",
                           !.name = RecipeNameOf(s), !.recipe_id = recipe_id,
                           !.update = [update EXCEPT !.name = Given(RecipeNameOf(s))]])
    /\ Keep

\* update_recipe_full: the query for the recipe
tx_load_recipe(s) ==
    /\ sessions[s].pc = "load recipe"
    /\ IF RecipeById(View(s).recipes, sessions[s].recipe_id) = {}
       THEN Raise(s, NOT_FOUND, RecipeNotFound)
       ELSE Goto(s, "delete ingredients")

\* update_recipe_full: "Delete existing ingredients", a bulk DELETE
tx_delete_ingredients(s) ==
    LET me == sessions[s]
    IN  /\ me.pc = "delete ingredients"
        /\ IF IsNotNone(me.update.ingredients)
           THEN Write(s, [View(s) EXCEPT !.ingredients = @ \ RowsOf(@, me.recipe_id)],
                      "add ingredients", 0)
           ELSE Goto(s, "replace steps")

\* update_recipe_full: "Add new ingredients"
tx_add_ingredients(s) ==
    /\ sessions[s].pc = "add ingredients"
    /\ IF ListOf(sessions[s].update.ingredients) # << >>
       THEN Raise(s, INTERNAL_ERROR, AttributeError)
       ELSE Goto(s, "replace steps")

\* update_recipe_full: "Delete existing steps" and "Add new steps"
tx_replace_steps(s) ==
    LET me == sessions[s]
        kept == View(s).steps \ RowsOf(View(s).steps, me.recipe_id)
        added == NewSteps(kept, me.recipe_id, ListOf(me.update.steps))
    IN  /\ me.pc = "replace steps"
        /\ IF IsNotNone(me.update.steps)
           THEN /\ \A t \in added : t.id <= MaxStepId
                /\ Write(s, [View(s) EXCEPT !.steps = kept \cup added], "commit update", 0)
           ELSE Goto(s, "commit update")

\* update_recipe_full: db.commit(), which flushes the scalar fields set on
\* the recipe
tx_commit_update(s) ==
    LET me == sessions[s]
        recipe == RecipeById(View(s).recipes, me.recipe_id)
    IN  /\ me.pc = "commit update"
        /\ recipe # {}
        /\ Commit(s, [View(s) EXCEPT !.recipes =
                         (@ \ recipe) \cup {SetNotNone(CHOOSE r \in recipe : TRUE, me.update)}])

\* another session holds the write lock until the busy timeout expires
tx_locked(s) ==
    /\ sessions[s].pc \notin {"idle", "done"}
    /\ ~LockFree(s)
    /\ Raise(s, INTERNAL_ERROR, DatabaseLocked)

\* the request is interrupted before its commit: the process stops or the
\* handler is cancelled, and the session ends without a commit
tx_interrupt(s) ==
    /\ sessions[s].pc \notin {"idle", "done"}
    /\ Raise(s, 0, Interrupted)

\* the codes the two creates carry
TxCodes == {None, Some(""), Some("111"), Some("222")}

\* POST bodies: no children, a step, an ingredient
TxCreates ==
    {NoFields,
     [NoFields EXCEPT !.steps = Given(<<Boil>>)],
     [NoFields EXCEPT !.ingredients = Given(<<"salt">>)]}

\* PUT bodies: lists emptied and replaced, an ingredient, scalars only
TxFullUpdates ==
    {[NoFields EXCEPT !.ingredients = Given(<< >>), !.steps = Given(<<Serve>>)],
     [NoFields EXCEPT !.ingredients = Given(<<"salt">>), !.steps = Given(<< >>)],
     [NoFields EXCEPT !.servings = Given(6)]}

TxNext ==
    \/ \E s \in Sessions, b \in TxCodes : tx_create_item(s, b)
    \/ \E s \in Sessions : tx_name_check(s)
    \/ \E s \in Sessions : tx_barcode_check(s)
    \/ \E s \in Sessions : tx_insert_item(s)
    \/ \E s \in Sessions : tx_commit_item(s)
    \/ \E s \in Sessions, r \in TxCreates : tx_create_recipe(s, r)
    \/ \E s \in Sessions : tx_add_recipe(s)
    \/ \E s \in Sessions : tx_add_children(s)
    \/ \E s \in Sessions : tx_commit_recipe(s)
    \/ \E s \in Sessions, u \in TxFullUpdates : tx_update_recipe_full(s, 1, u)
    \/ \E s \in Sessions : tx_load_recipe(s)
    \/ \E s \in Sessions : tx_delete_ingredients(s)
    \/ \E s \in Sessions : tx_add_ingredients(s)
    \/ \E s \in Sessions : tx_replace_steps(s)
    \/ \E s \in Sessions : tx_commit_update(s)
    \/ \E s \in Sessions : tx_locked(s)
    \/ \E s \in Sessions : tx_interrupt(s)

\* the database the two requests arrive on is kept in pre
TxInit ==
    /\ \E st \in {NoStore, LinkedStore} :
          /\ items = st.items
          /\ barcodes = st.barcodes
          /\ recipes = st.recipes
          /\ ingredients = st.ingredients
          /\ steps = st.steps
          /\ pre = st
    /\ last = NoRequest
    /\ sessions = NoSessions

\* two requests, each run statement by statement, on either database
TxSpec == TxInit /\ [][TxNext]_vars

(* ---------------------------- item merge ------------------------------- *)

InvalidArgument == "Target item cannot be one of the sources"

\* a tuple as a set
Elems(seq) == {seq[k] : k \in 1..Len(seq)}

\* one source merged while its barcodes are deleted along with it
MergeOneCascading(st, target_id, source_id) ==
    [st EXCEPT
        !.items = {i \in st.items : i.id # source_id},
        !.barcodes = {b \in st.barcodes : b.item_id # source_id},
        !.ingredients = {IF g.item_id = Some(source_id)
                         THEN [g EXCEPT !.item_id = Some(target_id)] ELSE g :
                            g \in st.ingredients}]

\* one source merged into the target: its barcodes and the ingredient links
\* to it are re-pointed, then the source item is deleted
MergeOne(st, target_id, source_id) ==
    [st EXCEPT
        !.items = {i \in st.items : i.id # source_id},
        !.barcodes = {IF b.item_id = source_id
                      THEN [b EXCEPT !.item_id = target_id] ELSE b : b \in st.barcodes},
        !.ingredients = {IF g.item_id = Some(source_id)
                         THEN [g EXCEPT !.item_id = Some(target_id)] ELSE g :
                            g \in st.ingredients}]

\* only the first listed source is merged
MergeFirstOnly(st, target_id, source_ids) ==
    IF source_ids = << >> THEN st ELSE MergeOne(st, target_id, Head(source_ids))

\* the sources merged one after the other, in list order
RECURSIVE MergeAll(_, _, _)
MergeAll(st, target_id, source_ids) ==
    IF source_ids = << >> THEN st
    ELSE MergeAll(MergeOne(st, target_id, Head(source_ids)), target_id, Tail(source_ids))

\* the merge that merges the sources there are before it reports one missing
merge_unchecked(st, target_id, source_ids) ==
    LET there == SelectSeq(source_ids, LAMBDA id : \E i \in st.items : i.id = id /\ id # target_id)
        missing == \E id \in {target_id} \cup Elems(source_ids) : \A i \in st.items : i.id # id
    IN  IF missing
        THEN [status |-> NOT_FOUND, error |-> NotFound, store |-> MergeAll(st, target_id, there)]
        ELSE IF target_id \in Elems(source_ids)
        THEN [status |-> BAD_REQUEST, error |-> InvalidArgument, store |-> MergeAll(st, target_id, there)]
        ELSE [status |-> OK, error |-> NoError, store |-> MergeAll(st, target_id, source_ids)]

\* Merge(targetId, sourceIds) on a given store: the response status and the
\* store it leaves
merge(st, target_id, source_ids) ==
    IF \E id \in {target_id} \cup Elems(source_ids) : ItemById(st.items, id) = {}
    THEN [status |-> NOT_FOUND, error |-> NotFound, store |-> st]
    ELSE IF target_id \in Elems(source_ids)
    THEN [status |-> BAD_REQUEST, error |-> InvalidArgument, store |-> st]
    ELSE [status |-> OK, error |-> NoError, store |-> MergeAll(st, target_id, source_ids)]

\* POST /api/items/merge {target_id, source_ids}
merge_items(target_id, source_ids) ==
    LET req == [Request("merge_items", target_id, None, None, None) EXCEPT !.source_ids = source_ids]
        r == merge(Store, target_id, source_ids)
    IN  /\ items' = r.store.items
        /\ barcodes' = r.store.barcodes
        /\ ingredients' = r.store.ingredients
        /\ UNCHANGED <<recipes, steps>>
        /\ Observe(req, r.status, r.error, IF r.status = OK THEN target_id ELSE 0)

\* item ids the merge requests carry: every id of the stores and one beyond
MergeRequestIds == 1..(MaxMergeId + 1)

\* source lists the merge requests carry: none, one, or two different ids
SourceLists ==
    {<< >>} \cup {<<a>> : a \in MergeRequestIds}
            \cup {p \in MergeRequestIds \X MergeRequestIds : p[1] # p[2]}

\* barcode strings of the stores a merge is tried on, with their row ids
MergeCodes == {"111", "222", "333"}

CodeRowId(code) == CASE code = "111" -> 1 [] code = "222" -> 2 [] code = "333" -> 3

\* the location given to the item with this id
LocationOf(id) == IF id = 1 THEN INVENTORY ELSE IF id = 2 THEN GROCERY_LIST ELSE NEITHER

\* The stores a merge is tried on are stores the item and import requests
\* leave: up to three items with different names and ids in 1..MaxMergeId
\* (gaps come from deletes), every code owned by at most one item that
\* exists, and either no recipe or the imported one, whose ingredient rows
\* have no item_id.
MergeInit ==
    /\ \E id_of \in [Names -> 0..MaxMergeId], owner \in [MergeCodes -> 0..MaxMergeId],
          imported \in BOOLEAN :
          /\ \A n, m \in Names : (n # m /\ id_of[n] # 0) => id_of[n] # id_of[m]
          /\ \A c \in MergeCodes : owner[c] # 0 => \E n \in Names : id_of[n] = owner[c]
          /\ items = {[id |-> id_of[n], name |-> n, location |-> LocationOf(id_of[n])] :
                          n \in {m \in Names : id_of[m] # 0}}
          /\ barcodes = {[id |-> CodeRowId(c), code |-> c, item_id |-> owner[c]] :
                             c \in {d \in MergeCodes : owner[d] # 0}}
          /\ recipes = IF imported
                       THEN {[id |-> 1, name |-> ImportedName, description |-> None,
                              servings |-> Some(4), prep_time_minutes |-> None,
                              cook_time_minutes |-> None, is_favorite |-> Some(FALSE)]}
                       ELSE {}
          /\ ingredients = IF imported THEN NewIngredients({}, 1, ImportedIngredients) ELSE {}
          /\ steps = IF imported THEN NewSteps({}, 1, ImportedSteps) ELSE {}
    /\ last = NoRequest
    /\ pre = NoStore
    /\ sessions = NoSessions

MergeNext ==
    Running /\ Sequential /\ \E t \in MergeRequestIds, s \in SourceLists : merge_items(t, s)

\* merges tried on every such store
MergeSpec == MergeInit /\ [][MergeNext]_vars

(* ---------------------------- claims ----------------------------------- *)

\* the observed request left the store as it found it
StoreUnchanged == Store = pre

\* the item the observed request addresses, as a set, in the store it found
PreItem == {i \in pre.items : i.id = last.item_id}

\* some item of the found store has this name
NameTaken(name) == \E i \in pre.items : i.name = name

\* some barcode row of the found store has this code
CodeOwned(code) == \E b \in pre.barcodes : b.code = code

\* the barcode rows of a table that point at this item
OwnedBy(bcs, item_id) == {b \in bcs : b.item_id = item_id}

\* the observed request is a create_item
CreateOf == last.op = "create_item"

\* C1: in every reachable state no two distinct items have the same name
\* (exact, case-sensitive comparison).
C1_NameUnique == \A i, j \in items : i.name = j.name => i = j

\* C1 witness: a rename has succeeded and left two items whose names differ
\* only in case.
C1_Witness ==
    /\ last.op = "update_item" /\ last.status = OK /\ last.name # None
    /\ {i.name : i \in items} = {"milk", "Milk"}
    /\ {i.name : i \in pre.items} # {i.name : i \in items}

\* C2: in every reachable state no two barcode rows have the same code, so a
\* code resolves to at most one item.
C2_CodeUnique == \A a, b \in barcodes : a.code = b.code => a = b

\* C2 witness: with two barcode rows in the store, an associate of a code that
\* is already there has been refused.
C2_Witness ==
    /\ last.op = "associate_barcode" /\ last.status = BAD_REQUEST
    /\ Cardinality(barcodes) = 2
    /\ \E b \in barcodes : b.code = last.barcode[1] /\ b.item_id # last.item_id

\* C3: in every reachable state every barcode row is owned by exactly one item
\* that exists.
C3_BarcodeOwned ==
    \A b \in barcodes : Cardinality({i \in items : i.id = b.item_id}) = 1

\* C3 witness: an item that owned barcodes has been deleted while another
\* item keeps a barcode.
C3_Witness ==
    /\ last.op = "delete_item" /\ last.status = OK
    /\ OwnedBy(pre.barcodes, last.item_id) # {}
    /\ barcodes # {}

\* C4: a create_item whose name an existing item already has fails with
\* DuplicateName (HTTP 400) and leaves items and barcodes unchanged, also when
\* a fresh barcode is supplied.
C4_CreateDuplicateName ==
    (CreateOf /\ NameTaken(last.name[1])) =>
        /\ last.status = BAD_REQUEST
        /\ last.error = DuplicateName
        /\ StoreUnchanged

\* C4 witness: a create_item with a taken name and a barcode nobody owns has
\* been answered.
C4_Witness ==
    /\ CreateOf /\ NameTaken(last.name[1])
    /\ Truthy(last.barcode)
    /\ ~CodeOwned(last.barcode[1])

\* C5: a create_item that supplies a barcode code some item owns, and an
\* associate_barcode of a code some item owns, fail with HTTP 400 and leave
\* items and barcodes unchanged.
C5_DuplicateBarcodeRefused ==
    (/\ last.op \in {"create_item", "associate_barcode"}
     /\ last.barcode # None
     /\ CodeOwned(last.barcode[1])) =>
        /\ last.status = BAD_REQUEST
        /\ StoreUnchanged

\* C6: a create_item with an unused name and, if a barcode string c is
\* supplied, a c nobody owns succeeds, adds exactly one item with that name
\* and location (NEITHER when omitted) and exactly one barcode row with code c
\* owned by the new item, so that a lookup of c finds the new item; with no
\* barcode supplied the new item has no barcodes.
C6_CreateAddsItemAndBarcode ==
    (/\ CreateOf
     /\ ~NameTaken(last.name[1])
     /\ last.barcode # None => ~CodeOwned(last.barcode[1])) =>
        LET added == items \ pre.items
            loc == IF last.location = None THEN NEITHER ELSE last.location[1]
        IN  /\ last.status = OK
            /\ pre.items \subseteq items /\ pre.barcodes \subseteq barcodes
            /\ Cardinality(added) = 1
            /\ \A i \in added :
                  /\ i.id = last.ret /\ i.name = last.name[1] /\ i.location = loc
                  /\ \A p \in pre.items : p.id # i.id
            /\ IF last.barcode = None
               THEN barcodes = pre.barcodes /\ OwnedBy(barcodes, last.ret) = {}
               ELSE /\ Cardinality(barcodes \ pre.barcodes) = 1
                    /\ \A b \in barcodes \ pre.barcodes :
                          b.code = last.barcode[1] /\ b.item_id = last.ret
                    /\ lookup_barcode(barcodes, items, last.barcode[1]).found
                    /\ lookup_barcode(barcodes, items, last.barcode[1]).item = added

\* C7: associate_barcode fails with DuplicateBarcode when the code is owned by
\* any item (the addressed one included), else with NotFound when the item
\* does not exist, both without adding a row; otherwise it adds exactly one
\* row with that code owned by the item and keeps every row there was.
C7_Associate ==
    last.op = "associate_barcode" =>
        IF CodeOwned(last.barcode[1])
        THEN last.status = BAD_REQUEST /\ last.error = DuplicateBarcode /\ StoreUnchanged
        ELSE IF PreItem = {}
        THEN last.status = NOT_FOUND /\ last.error = NotFound /\ StoreUnchanged
        ELSE /\ last.status = OK /\ last.ret = last.item_id
             /\ items = pre.items
             /\ pre.barcodes \subseteq barcodes
             /\ Cardinality(barcodes \ pre.barcodes) = 1
             /\ \A b \in barcodes \ pre.barcodes :
                   /\ b.code = last.barcode[1] /\ b.item_id = last.item_id
                   /\ \A p \in pre.barcodes : p.id # b.id

\* C7 witness: a code has been associated with an item that already had a
\* barcode, and the item now has both.
C7_Witness ==
    /\ last.op = "associate_barcode" /\ last.status = OK
    /\ OwnedBy(pre.barcodes, last.item_id) # {}
    /\ Cardinality(OwnedBy(barcodes, last.item_id)) = 2

\* C8: delete_item of an existing item removes the item and every barcode it
\* owned: get_item of it is NotFound, a lookup of each of its codes finds
\* nothing, and every other item and barcode is unchanged.
C8_DeleteCascades ==
    (last.op = "delete_item" /\ PreItem # {}) =>
        /\ last.status = OK
        /\ items = pre.items \ PreItem
        /\ barcodes = pre.barcodes \ OwnedBy(pre.barcodes, last.item_id)
        /\ get_item(items, last.item_id) = NOT_FOUND
        /\ \A b \in OwnedBy(pre.barcodes, last.item_id) :
              ~lookup_barcode(barcodes, items, b.code).found

\* C8 witness: an item that owned two barcodes has been deleted and another
\* item is still there.
C8_Witness ==
    /\ last.op = "delete_item" /\ last.status = OK
    /\ Cardinality(OwnedBy(pre.barcodes, last.item_id)) = 2
    /\ items # {}

\* the items of the found store with the addressed item's name replaced
Renamed(name) ==
    {IF i.id = last.item_id THEN [id |-> i.id, name |-> name, location |-> i.location] ELSE i :
        i \in pre.items}

\* the items of the found store with the addressed item's location replaced
Moved(location) ==
    {IF i.id = last.item_id THEN [id |-> i.id, name |-> i.name, location |-> location] ELSE i :
        i \in pre.items}

\* the observed request is a rename: an update_item with a name and no location
IsRename == last.op = "update_item" /\ last.name # None /\ last.location = None

\* C9: a rename of an existing item fails with DuplicateName, changing
\* nothing, when another item has the new name; otherwise (the item's own
\* current name included) it succeeds and changes only that item's name.
C9_Rename ==
    (IsRename /\ PreItem # {}) =>
        IF \E i \in pre.items : i.name = last.name[1] /\ i.id # last.item_id
        THEN last.status = BAD_REQUEST /\ last.error = DuplicateName /\ StoreUnchanged
        ELSE /\ last.status = OK
             /\ items = Renamed(last.name[1])
             /\ barcodes = pre.barcodes

\* C9 witness: an item has been renamed to the name it already had.
C9_Witness ==
    /\ IsRename /\ last.status = OK
    /\ \E i \in PreItem : i.name = last.name[1]
    /\ Cardinality(items) = 2
    /\ OwnedBy(barcodes, last.item_id) # {}

\* the location each shortcut sets
TargetOf(op) ==
    IF op = "move_to_inventory" THEN INVENTORY
    ELSE IF op = "move_to_grocery" THEN GROCERY_LIST
    ELSE NEITHER

IsMove == last.op \in {"move_to_inventory", "move_to_grocery", "remove_from_lists"}

\* C10: from each of the 3 locations, move_to_inventory, move_to_grocery and
\* remove_from_lists of an existing item succeed and leave it in INVENTORY,
\* GROCERY_LIST and NEITHER respectively, changing only that item's location.
C10_MoveTotal ==
    (IsMove /\ PreItem # {}) =>
        /\ last.status = OK
        /\ items = Moved(TargetOf(last.op))
        /\ \A i \in items : i.id = last.item_id => i.location = TargetOf(last.op)
        /\ barcodes = pre.barcodes

\* C10 witness: an item on the grocery list has been moved to the grocery
\* list, with another item and a barcode in the store.
C10_Witness ==
    /\ last.op = "move_to_grocery" /\ last.status = OK
    /\ \E i \in PreItem : i.location = GROCERY_LIST
    /\ Cardinality(items) = 2
    /\ barcodes # {}

\* the observed request addresses one item by id and changes or reads it
ById ==
    last.op \in {"get_item", "update_item", "delete_item",
                 "move_to_inventory", "move_to_grocery", "remove_from_lists"}

\* C11: get_item, update_item, delete_item, move_to_inventory, move_to_grocery
\* and remove_from_lists called with an id no item has each fail with NotFound
\* (HTTP 404) and leave the store unchanged: none of them creates an item.
C11_MissingIdNotFound ==
    (ById /\ PreItem = {}) =>
        /\ last.status = NOT_FOUND
        /\ last.error = NotFound
        /\ StoreUnchanged

\* C11 witness: an update carrying a free name and a location has addressed an
\* id no item of a non-empty store has.
C11_Witness ==
    /\ last.op = "update_item" /\ PreItem = {}
    /\ last.name # None /\ last.location # None
    /\ ~NameTaken(last.name[1])
    /\ pre.items # {}

\* the elements of a sequence
Range(seq) == {seq[k] : k \in 1..Len(seq)}

\* seq lists exactly the rows of S, each once, by name ascending
IsListing(seq, S) ==
    /\ Range(seq) = S
    /\ Len(seq) = Cardinality(S)
    /\ \A k \in 1..(Len(seq) - 1) : SeqLess(Chars(seq[k].name), Chars(seq[k + 1].name))

\* the items of a table at one location
At(its, location) == {i \in its : i.location = location}

\* C12: in every reachable state get_inventory returns exactly the items whose
\* location is INVENTORY and get_grocery_list exactly those whose location is
\* GROCERY_LIST, each with count equal to the number of items returned; no item
\* is in both; after a successful move_to_grocery the item is in the grocery
\* response and not in the inventory response.
C12_InventoryAndGrocery ==
    LET inv == get_inventory(items)
        gro == get_grocery_list(items)
    IN  /\ Range(inv.items) = At(items, INVENTORY)
        /\ inv.count = Len(inv.items) /\ inv.count = Cardinality(At(items, INVENTORY))
        /\ Range(gro.items) = At(items, GROCERY_LIST)
        /\ gro.count = Len(gro.items) /\ gro.count = Cardinality(At(items, GROCERY_LIST))
        /\ Range(inv.items) \cap Range(gro.items) = {}
        /\ (last.op = "move_to_grocery" /\ last.status = OK) =>
              /\ \E i \in Range(gro.items) : i.id = last.item_id
              /\ \A i \in Range(inv.items) : i.id # last.item_id
        /\ last.op = "get_inventory" =>
              /\ Range(last.body[1].items) = At(pre.items, INVENTORY)
              /\ last.body[1].count = Cardinality(At(pre.items, INVENTORY))
        /\ last.op = "get_grocery_list" =>
              /\ Range(last.body[1].items) = At(pre.items, GROCERY_LIST)
              /\ last.body[1].count = Cardinality(At(pre.items, GROCERY_LIST))

\* C12 witness: an item of the inventory has been moved to the grocery list
\* while another item stays in the inventory.
C12_Witness ==
    /\ last.op = "move_to_grocery" /\ last.status = OK
    /\ \E i \in PreItem : i.location = INVENTORY
    /\ Cardinality(At(items, INVENTORY)) = 1
    /\ Cardinality(At(items, GROCERY_LIST)) = 1

\* C13: list_items returns all items when no location is given and exactly
\* the items with the given location otherwise (each of the 3 locations), in
\* both cases ordered by name ascending, and changes nothing.
C13_List ==
    last.op = "list_items" =>
        /\ last.status = OK
        /\ IsListing(last.body, IF last.location = None THEN pre.items
                                ELSE At(pre.items, last.location[1]))
        /\ StoreUnchanged

\* C13 witness: an unfiltered listing has returned two items of different
\* locations, the one created later first.
C13_Witness ==
    /\ last.op = "list_items" /\ last.location = None
    /\ Len(last.body) = 2
    /\ last.body[1].id > last.body[2].id
    /\ last.body[1].location # last.body[2].location

\* q occurs in s as a run of consecutive characters
Contains(s, q) ==
    \E k \in 0..(Len(s) - Len(q)) : \A j \in 1..Len(q) : s[k + j] = q[j]

\* C14: for every query string q, search_items returns exactly the items whose
\* name contains q as a case-insensitive substring, ordered by name ascending.
C14_Search ==
    last.op = "search_items" =>
        IsListing(last.body,
                  {i \in pre.items : Contains(Lower(Chars(i.name)), Lower(Chars(last.name[1])))})

\* C15: lookup_barcode answers found with the owning item if and only if a
\* barcode row with exactly that code exists, and not found with no item
\* otherwise; it echoes the code and never changes the store.
C15_Lookup ==
    last.op = "lookup_barcode" =>
        LET r == last.body[1]
            rows == {b \in pre.barcodes : b.code = last.barcode[1]}
        IN  /\ last.status = OK
            /\ r.barcode = last.barcode[1]
            /\ r.found <=> rows # {}
            /\ r.item = {i \in pre.items : \E b \in rows : b.item_id = i.id}
            /\ Cardinality(r.item) = (IF r.found THEN 1 ELSE 0)
            /\ StoreUnchanged

\* C15 witness: a lookup has found the owner of a code in a store where
\* another item owns another code.
C15_Witness ==
    /\ last.op = "lookup_barcode" /\ last.body[1].found
    /\ \E b \in pre.barcodes : b.code # last.barcode[1] /\ b.item_id \notin {i.id : i \in last.body[1].item}

\* the observed request is a merge
IsMerge == last.op = "merge_items"

\* the ids the observed merge lists as sources
Sources == Range(last.source_ids)

\* some id the observed merge names has no item in the found store
SomeMissing == \E id \in {last.item_id} \cup Sources : \A i \in pre.items : i.id # id

\* the codes of the barcode rows of a table that these items own
CodesOf(bcs, ids) == {b.code : b \in {c \in bcs : c.item_id \in ids}}

C17_MergeFails ==
    IsMerge =>
        /\ (SomeMissing \/ last.item_id \in Sources) =>
              /\ last.status \in {BAD_REQUEST, NOT_FOUND}
              /\ StoreUnchanged
        /\ (~SomeMissing /\ last.item_id \in Sources) =>
              last.status = BAD_REQUEST /\ last.error = InvalidArgument
        /\ (SomeMissing /\ last.item_id \notin Sources) =>
              last.status = NOT_FOUND /\ last.error = NotFound

\* C17 witness: a merge into an existing target has listed a source that
\* owns a barcode and then an id no item has.
C17_Witness ==
    /\ IsMerge /\ PreItem # {}
    /\ Len(last.source_ids) = 2
    /\ OwnedBy(pre.barcodes, last.source_ids[1]) # {}
    /\ \A i \in pre.items : i.id # last.source_ids[2]
    /\ last.status = NOT_FOUND

PreRecipe == {r \in pre.recipes : r.id = last.recipe_id}

\* the rows of a table that belong to the addressed recipe, in insertion order
Own(rows) == OrderById({r \in rows : r.recipe_id = last.recipe_id})

\* the rows of a table that belong to other recipes
Others(rows) == {r \in rows : r.recipe_id # last.recipe_id}

\* the body gives this field a list
HasList(field) == field # None /\ field # Null

\* C19: update_recipe_full on an existing recipe replaces the whole ingredient
\* set with the supplied list when ingredients is provided, clearing it when
\* the list is empty, and leaves the ingredient rows unchanged when
\* ingredients is omitted; the same holds for steps, independently of
\* ingredients.
C19_UpdateFullReplaces ==
    (last.op = "update_recipe_full" /\ PreRecipe # {}) =>
        LET body == last.update
            ings == Own(ingredients)
            stps == Own(steps)
        IN  /\ HasList(body.ingredients) =>
                  /\ [k \in 1..Len(ings) |-> ings[k].name] = body.ingredients[1][1]
                  /\ Others(ingredients) = Others(pre.ingredients)
            /\ body.ingredients = None => ingredients = pre.ingredients
            /\ HasList(body.steps) =>
                  /\ [k \in 1..Len(stps) |->
                         [step_number |-> stps[k].step_number,
                          instruction |-> stps[k].instruction]] = body.steps[1][1]
                  /\ Others(steps) = Others(pre.steps)
            /\ body.steps = None => steps = pre.steps

\* the scalar fields of a recipe row, each as an Optional value
Scalars(r) ==
    [name |-> Some(r.name), description |-> r.description, servings |-> r.servings,
     prep_time_minutes |-> r.prep_time_minutes, cook_time_minutes |-> r.cook_time_minutes,
     is_favorite |-> r.is_favorite]

ScalarFields ==
    {"name", "description", "servings", "prep_time_minutes", "cook_time_minutes", "is_favorite"}

\* the addressed recipe now has, in every scalar field the body provides, the
\* provided value, and in every other scalar field the value it had; no other
\* recipe row, no ingredient row and no step row has changed
OnlyProvidedChanged ==
    /\ \E old \in PreRecipe, new \in recipes :
          /\ new.id = old.id
          /\ recipes \ {new} = pre.recipes \ {old}
          /\ \A f \in ScalarFields :
                Scalars(new)[f] = (IF last.update[f] # None THEN last.update[f][1]
                                   ELSE Scalars(old)[f])
    /\ ingredients = pre.ingredients
    /\ steps = pre.steps

\* C20: update_recipe on an existing recipe changes exactly the scalar fields
\* that were provided (among name, description, servings, prep time, cook
\* time, is_favorite) to the provided values, leaves every scalar field that
\* was not provided unchanged, and leaves the recipe's ingredient rows and
\* step rows unchanged.
C20_UpdatePartial ==
    (last.op = "update_recipe" /\ PreRecipe # {}) => OnlyProvidedChanged

\* C20 amended: the same, null included for every field but name; a body that
\* gives name as null is answered with a server error and changes nothing.
C20_UpdatePartialNameNotNull ==
    (last.op = "update_recipe" /\ PreRecipe # {}) =>
        IF last.update.name = Null
        THEN last.status = INTERNAL_ERROR /\ StoreUnchanged
        ELSE OnlyProvidedChanged

\* C20 witness: a recipe with ingredient and step rows and a description has
\* been patched with a body that gives description as null and leaves name
\* out: the description is gone and the name is the one it had.
C20_Witness ==
    /\ last.op = "update_recipe"
    /\ last.update.description = Null /\ last.update.name = None
    /\ \E r \in PreRecipe : r.description # None
    /\ Own(pre.ingredients) # << >> /\ Own(pre.steps) # << >>
    /\ \E r \in recipes, old \in PreRecipe : r.description = None /\ r.name = old.name

\* the rows of a table that belong to the recipe a request returned, in id order
Made(rows) == OrderById({g \in rows : g.recipe_id = last.ret})

\* C21: Create succeeds for every list of ingredients and of steps, stores one
\* new recipe with one ingredient row for each ingredient supplied and one
\* step row for each step supplied, step numbers as given, and servings 4
\* when the body leaves servings out.
C21_CreateRecipe ==
    last.op = "create_recipe" =>
        /\ last.status = OK
        /\ \E new \in recipes :
              /\ new.id = last.ret
              /\ new \notin pre.recipes
              /\ recipes = pre.recipes \cup {new}
              /\ new.name = last.update.name[1][1]
              /\ new.servings = Attr(last.update.servings, Some(4))
        /\ [k \in 1..Len(Made(ingredients)) |-> Made(ingredients)[k].name]
              = ListOf(last.update.ingredients)
        /\ [k \in 1..Len(Made(steps)) |->
               [step_number |-> Made(steps)[k].step_number,
                instruction |-> Made(steps)[k].instruction]]
              = ListOf(last.update.steps)
        /\ {g \in ingredients : g.recipe_id # last.ret} = pre.ingredients
        /\ {t \in steps : t.recipe_id # last.ret} = pre.steps

\* the part of C21 the code keeps: a body without ingredients
C21_CreateRecipeNoIngredients ==
    ListOf(last.update.ingredients) = << >> => C21_CreateRecipe

\* C22: every ingredient row and every step row belongs to an existing
\* recipe, Delete(id) removes the recipe with all of its ingredient and
\* step rows and nothing else, and a list replaced by UpdateFull leaves as
\* many rows as the new list has, none of the old ones besides.
C22_NoOrphans ==
    /\ \A g \in ingredients \cup steps : \E r \in recipes : r.id = g.recipe_id
    /\ (/\ last.op = "update_recipe_full"
        /\ last.error \notin {RecipeNotFound, AttributeError}) =>
          /\ IsNotNone(last.update.ingredients) =>
                Len(Own(ingredients)) = Len(ListOf(last.update.ingredients))
          /\ IsNotNone(last.update.steps) =>
                Len(Own(steps)) = Len(ListOf(last.update.steps))
    /\ (last.op = "delete_recipe" /\ last.status = OK) =>
          /\ recipes = pre.recipes \ PreRecipe
          /\ ingredients = {g \in pre.ingredients : g.recipe_id # last.recipe_id}
          /\ steps = {t \in pre.steps : t.recipe_id # last.recipe_id}

C22_Witness ==
    /\ last.op = "delete_recipe" /\ last.status = OK
    /\ Own(pre.ingredients) # << >> /\ Own(pre.steps) # << >>
    /\ ingredients = {} /\ steps = {}

\* C23: ToggleFavorite(id) on an existing recipe sets is_favorite to the
\* negation of the value it had, returns the new value and changes nothing
\* else, a second toggle gives the first value back, and a missing id is
\* answered NotFound with the store unchanged.
C23_ToggleFavorite ==
    last.op = "toggle_favorite" =>
        IF PreRecipe = {}
        THEN last.status = NOT_FOUND /\ last.error = RecipeNotFound /\ StoreUnchanged
        ELSE \E old \in PreRecipe, new \in recipes :
               /\ new.id = old.id
               /\ new.is_favorite # None
               /\ old.is_favorite # None => new.is_favorite[1] = ~old.is_favorite[1]
               /\ Some(PyNot(new.is_favorite)) = old.is_favorite
               /\ Scalars([new EXCEPT !.is_favorite = old.is_favorite]) = Scalars(old)
               /\ recipes = (pre.recipes \ PreRecipe) \cup {new}
               /\ ingredients = pre.ingredients /\ steps = pre.steps
               /\ last.status = OK => last.body = <<new>>

\* the part of C23 the code keeps: a flag that is not null
C23_ToggleFavoriteNotNull ==
    (\A r \in PreRecipe : r.is_favorite # None) => C23_ToggleFavorite

\* the body gives this field no value: it leaves it out or gives null
NullOrOmitted(field) == field = None \/ field = Null

\* C30: update_recipe_full never sets a scalar field to null: a scalar the
\* body gives as null keeps its value like one the body leaves out, and
\* ingredients or steps given as null leave the rows unchanged, only an
\* empty list clearing them.
C30_UpdateFullNulls ==
    (/\ last.op = "update_recipe_full"
     /\ PreRecipe # {}
     /\ last.error # AttributeError) =>
        /\ \E old \in PreRecipe, new \in recipes :
              /\ new.id = old.id
              /\ recipes = (pre.recipes \ PreRecipe) \cup {new}
              /\ \A f \in ScalarFields :
                    /\ NullOrOmitted(last.update[f]) => Scalars(new)[f] = Scalars(old)[f]
                    /\ ~NullOrOmitted(last.update[f]) => Scalars(new)[f] = last.update[f][1]
                    /\ Scalars(new)[f] = None => Scalars(old)[f] = None
        /\ NullOrOmitted(last.update.ingredients) => ingredients = pre.ingredients
        /\ NullOrOmitted(last.update.steps) => steps = pre.steps
        /\ last.update.ingredients = Given(<< >>) => Own(ingredients) = << >>
        /\ last.update.steps = Given(<< >>) => Own(steps) = << >>

C30_Witness ==
    /\ last.op = "update_recipe_full" /\ last.status = OK
    /\ last.update.description = Null /\ last.update.servings = Null
    /\ last.update.ingredients = Null /\ last.update.steps = Null
    /\ \E r \in recipes : r.id = last.recipe_id /\ r.description # None /\ r.servings = Some(6)
    /\ Own(ingredients) # << >> /\ Own(steps) # << >>

\* the observed request is a PATCH with only a location
IsRelocate == last.op = "update_item" /\ last.name = None /\ last.location # None

\* the store a shortcut to this location leaves: the addressed item there,
\* everything else as found
ShortcutStore(location) == [pre EXCEPT !.items = Moved(location)]

\* C27: for every existing item and every location L, a PATCH with only the
\* location L and the shortcut for L (move_to_inventory, move_to_grocery,
\* remove_from_lists) both succeed and leave the same store: the addressed
\* item in L and nothing else changed.
C27_PatchLocationIsShortcut ==
    /\ (IsRelocate /\ PreItem # {}) =>
          last.status = OK /\ Store = ShortcutStore(last.location[1])
    /\ (IsMove /\ PreItem # {}) =>
          last.status = OK /\ Store = ShortcutStore(TargetOf(last.op))
    /\ \A l \in ItemLocation : \E op \in {"move_to_inventory", "move_to_grocery", "remove_from_lists"} :
          TargetOf(op) = l

C27_Witness ==
    /\ IsRelocate /\ last.status = OK
    /\ last.location = Some(NEITHER)
    /\ \E i \in PreItem : i.location = INVENTORY
    /\ \E i \in items : i.id = last.item_id /\ i.location = NEITHER
    /\ Cardinality(items) = 2
    /\ OwnedBy(barcodes, last.item_id) # {}

IsImport == last.op \in {"import_spoonacular_recipe", "import_recipe_from_url"}

IsSuggestion == last.op \in {"get_recipe_suggestions", "get_grocery_suggestions"}

\* what the recipe service and the parser answered to the observed request
ServiceReply == last.replies[1]

ParserReply == last.replies[2]

\* the recipe service is not configured or fails
ServiceFails == ServiceReply \in {"not configured", "error", "no title"}

\* the parser is not configured or fails
ParserFails == ParserReply \in {"not configured", "unparsable", "failed", "malformed"}

\* the observed import stored one recipe, with ingredient and step rows of its
\* own only, and left every other row alone
ImportStored ==
    /\ \E new \in recipes : new.id = last.ret /\ new \notin pre.recipes
                             /\ recipes = pre.recipes \cup {new}
    /\ {g \in ingredients : g.recipe_id # last.ret} = pre.ingredients
    /\ {t \in steps : t.recipe_id # last.ret} = pre.steps
    /\ items = pre.items /\ barcodes = pre.barcodes

C25_DeleteItemKeepsIngredients ==
    (last.op = "delete_item" /\ last.status = OK) =>
        /\ recipes = pre.recipes /\ ingredients = pre.ingredients /\ steps = pre.steps
        /\ \A g \in pre.ingredients : g.item_id = Some(last.item_id) =>
              \E h \in ingredients : h.id = g.id /\ h.item_id = g.item_id

C25_Witness ==
    /\ last.op = "delete_item" /\ last.status = OK
    /\ \E g \in ingredients : g.item_id = Some(last.item_id)
    /\ \A i \in items : i.id # last.item_id
    /\ steps # {}

\* C29: item ids are never reused: once an item has been deleted, no item
\* ever has its id again, so an ingredient left with the deleted id is never
\* shown as matched to another item.
C29_IdsNeverReused ==
    (last.op = "delete_item" /\ last.status = OK) =>
        /\ \A i \in items : i.id # last.item_id
        /\ \A g \in ingredients : g.item_id = Some(last.item_id) => MatchedName(g, items) = None

\* the id reuse reaches the page: an ingredient matched to the deleted item
\* is shown as matched to an item created later
C29_DanglingNeverMatched ==
    (last.op = "delete_item" /\ last.status = OK) =>
        \A g \in ingredients : g.item_id = Some(last.item_id) => MatchedName(g, items) = None

\* the request of session s has ended / has ended with its commit
Done(s) == sessions[s].pc = "done"

Succeeded(s) == Done(s) /\ sessions[s].status = OK

\* the committed item and recipe that carry the name of session s's request
ItemOf(s) == {i \in items : i.name = ItemNameOf(s)}

RecipeOf(s) == {r \in recipes : r.name = RecipeNameOf(s)}

\* the steps and the ingredient names of one recipe, in insertion order
StepList(rows, id) ==
    LET own == OrderById(RowsOf(rows, id))
    IN  [k \in 1..Len(own) |-> [step_number |-> own[k].step_number, instruction |-> own[k].instruction]]

IngredientList(rows, id) ==
    LET own == OrderById(RowsOf(rows, id))
    IN  [k \in 1..Len(own) |-> own[k].name]

\* the sessions whose committed request gave recipe id the list in this field
Gave(id, ingredients_field) ==
    {s \in Sessions :
        /\ Succeeded(s)
        /\ \/ sessions[s].op = "create_recipe" /\ sessions[s].new_id = id
           \/ /\ sessions[s].op = "update_recipe_full" /\ sessions[s].recipe_id = id
              /\ IsNotNone(IF ingredients_field THEN sessions[s].update.ingredients
                                                ELSE sessions[s].update.steps)}

\* the whole lists a recipe can show: the one it arrived with and the ones
\* of committed requests
AllowedSteps(id) ==
    (IF \E r \in pre.recipes : r.id = id THEN {StepList(pre.steps, id)} ELSE {})
        \cup {ListOf(sessions[s].update.steps) : s \in Gave(id, FALSE)}

AllowedIngredients(id) ==
    (IF \E r \in pre.recipes : r.id = id THEN {IngredientList(pre.ingredients, id)} ELSE {})
        \cup {ListOf(sessions[s].update.ingredients) : s \in Gave(id, TRUE)}

\* C26: the writes of a multi-step request reach the database at its commit
\* and not before: while no request has committed the database is the one
\* they arrived on; an item or a recipe of a request is there only once the
\* request has committed, the item with its barcode, the recipe with a whole
\* ingredient list and a whole step list (the old one or a committed new
\* one); no child row is without its parent.
C26_SingleCommitPoint ==
    /\ (\A s \in Sessions : ~Succeeded(s)) => Store = pre
    /\ \A s \in Sessions :
          /\ ItemOf(s) # {} =>
                /\ Succeeded(s) /\ sessions[s].op = "create_item"
                /\ Truthy(sessions[s].barcode) =>
                      \E b \in barcodes, i \in ItemOf(s) :
                          b.code = sessions[s].barcode[1] /\ b.item_id = i.id
          /\ RecipeOf(s) # {} =>
                Succeeded(s) /\ sessions[s].op \in {"create_recipe", "update_recipe_full"}
    /\ \A r \in recipes :
          /\ StepList(steps, r.id) \in AllowedSteps(r.id)
          /\ IngredientList(ingredients, r.id) \in AllowedIngredients(r.id)
    /\ \A b \in barcodes : \E i \in items : i.id = b.item_id
    /\ \A g \in ingredients \cup steps : \E r \in recipes : r.id = g.recipe_id

\* C26 witness: a create with a barcode was interrupted after its flush and
\* a PUT failed after deleting the old ingredients; the database still has
\* the ingredients and has no item of the create.
C26_Witness ==
    \E s, t \in Sessions :
        /\ sessions[s].op = "create_item" /\ sessions[s].error = Interrupted
        /\ sessions[s].new_id # 0 /\ Truthy(sessions[s].barcode)
        /\ sessions[t].op = "update_recipe_full" /\ sessions[t].error = AttributeError
        /\ ItemOf(s) = {}
        /\ ingredients # {} /\ ingredients = pre.ingredients

\* both requests are creates that carry the same barcode
SameBarcode ==
    /\ \A s \in Sessions : sessions[s].op = "create_item"
    /\ sessions[1].barcode = sessions[2].barcode
    /\ sessions[1].barcode # None

\* C28: of two creates with the same barcode and different names, under
\* every interleaving of their statements, at most one succeeds, the store
\* never has two barcode rows with the code, and never an item of the one
\* that failed.
C28_SameBarcodeRace ==
    SameBarcode =>
        /\ ~(Succeeded(1) /\ Succeeded(2))
        /\ \A b1, b2 \in barcodes : b1.code = b2.code => b1 = b2
        /\ \A s \in Sessions : (Done(s) /\ ~Succeeded(s)) => ItemOf(s) = {}

\* the part of C28 the code keeps: a code that is not the empty string
C28_SameBarcodeRaceNotEmpty ==
    Truthy(sessions[1].barcode) => C28_SameBarcodeRace

\* the race itself: both creates passed the barcode check before either
\* committed, one committed and the other failed on the UNIQUE constraint
C28_RaceReached ==
    /\ SameBarcode /\ Truthy(sessions[1].barcode)
    /\ \E s, t \in Sessions : Succeeded(s) /\ sessions[t].error = UniqueViolation

=============================================================================
